---- MODULE Spec2Model ----
(***************************************************************************)
(* The JSON tooling core of ProductiMate: the structural diff of           *)
(* JsonTools (generateSmartJsonDiff) over parsed JSON values, the          *)
(* formatter of JsonTools (formattedJson, isValidJson) over texts, and     *)
(* the tree of JsonViewer (parseJsonToNodes, expansion, search).           *)
(* Texts are strings, read and written character by character.             *)
(*                                                                         *)
(* A parsed JSON value (the result of JSON.parse) is a record              *)
(*   [t, n, s, keys, items]                                                *)
(* t is the kind: "null", "boolean", "number", "string", "array",          *)
(* "object" (and "undefined" for an absent property of a diff record);     *)
(* n is the payload of a number (of a boolean: 0 or 1), s the payload of   *)
(* a string, items the elements of an array or the property values of an   *)
(* object, keys the property names of an object in the order Object.keys   *)
(* enumerates them.                                                        *)
(***************************************************************************)
EXTENDS Integers, Sequences, FiniteSets, TLC

\* the diff tab of JsonTools: its texts and its switch, the documents the
\* texts parse to, its memos
VARIABLES leftJson, rightJson, showOnlyDiffs, left, right, diffResult, filteredDiffResult, pc

\* the format tab of JsonTools: its state and its memos
VARIABLES jsonInput, indentSize, sortKeys, compactMode, formattedJson, isValidJson

\* JsonViewer: its state (viewerInput is its jsonInput) and its memos
VARIABLES viewerInput, searchTerm, expandedPaths, parsedJson, nodes, filteredNodes

diffVars == <<leftJson, rightJson, showOnlyDiffs, left, right, diffResult, filteredDiffResult, pc>>

formatVars == <<jsonInput, indentSize, sortKeys, compactMode, formattedJson, isValidJson>>

viewerVars == <<viewerInput, searchTerm, expandedPaths, parsedJson, nodes, filteredNodes>>

vars == <<diffVars, formatVars, viewerVars>>

----------------------------------------------------------------------------
(* Bounds of the model *)

\* largest number of nodes of a document, when both documents are arbitrary
MaxNodes == 3

\* largest number of nodes of a document compared with a reordering of itself
MaxNodesSelf == 4

----------------------------------------------------------------------------
(* Values *)

Null == [t |-> "null", n |-> 0, s |-> "", keys |-> <<>>, items |-> <<>>]

Undefined == [t |-> "undefined", n |-> 0, s |-> "", keys |-> <<>>, items |-> <<>>]

Num(k) == [t |-> "number", n |-> k, s |-> "", keys |-> <<>>, items |-> <<>>]

Str(str) == [t |-> "string", n |-> 0, s |-> str, keys |-> <<>>, items |-> <<>>]

Bool(b) == [t |-> "boolean", n |-> IF b THEN 1 ELSE 0, s |-> "", keys |-> <<>>, items |-> <<>>]

Arr(elems) == [t |-> "array", n |-> 0, s |-> "", keys |-> <<>>, items |-> elems]

Obj(ks, vs) == [t |-> "object", n |-> 0, s |-> "", keys |-> ks, items |-> vs]

\* IsObjectType without the test for null: typeof v === 'object'
TypeofObject(v) == v.t \in {"array", "object", "null"}

\* typeof v === 'object' && v !== null
IsObjectType(v) == v.t \in {"array", "object"}

\* Array.isArray(v)
IsArray(v) == v.t = "array"

\* Object.keys(v)
ObjectKeys(v) == v.keys

\* the elements of a sequence, as a set
Range(seq) == {seq[i] : i \in 1..Len(seq)}

\* keys.includes(key)
Includes(ks, key) == key \in Range(ks)

\* obj[key], for a key the object has
Get(obj, key) == obj.items[CHOOSE i \in 1..Len(obj.keys) : obj.keys[i] = key]

\* Dedup without the Set: [...leftKeys, ...rightKeys]
KeepDuplicates(seq) == seq

\* Dedup keeping the last occurrence of each element instead of the first
RECURSIVE DedupKeepLast(_)
DedupKeepLast(seq) ==
    IF seq = <<>> THEN <<>>
    ELSE LET back == DedupKeepLast(Tail(seq))
         IN  IF Head(seq) \in Range(back) THEN back ELSE <<Head(seq)>> \o back

\* [...new Set(seq)]: the first occurrence of each element, in order
RECURSIVE Dedup(_)
Dedup(seq) ==
    IF seq = <<>> THEN <<>>
    ELSE LET front == Dedup(SubSeq(seq, 1, Len(seq) - 1))
             last == seq[Len(seq)]
         IN  IF last \in Range(front) THEN front ELSE Append(front, last)

\* lodash isEqual on parsed JSON values: deep, by value, the order of an
\* object's keys being irrelevant
RECURSIVE isEqual(_, _)
isEqual(a, b) ==
    IF a.t # b.t THEN FALSE
    ELSE IF a.t = "array"
         THEN /\ Len(a.items) = Len(b.items)
              /\ \A i \in 1..Len(a.items) : isEqual(a.items[i], b.items[i])
    ELSE IF a.t = "object"
         THEN /\ Len(a.keys) = Len(b.keys)
              /\ \A k \in Range(a.keys) :
                    Includes(b.keys, k) /\ isEqual(Get(a, k), Get(b, k))
    ELSE a.n = b.n /\ a.s = b.s

----------------------------------------------------------------------------
(* The diff engine *)

\* DiffRecord with the two values on the wrong sides
SwappedRecord(path, type, leftValue, rightValue) ==
    [path |-> path, type |-> type, leftValue |-> rightValue, rightValue |-> leftValue]

\* a JsonDiffResult; an absent leftValue or rightValue is Undefined
DiffRecord(path, type, leftValue, rightValue) ==
    [path |-> path, type |-> type, leftValue |-> leftValue, rightValue |-> rightValue]

\* path || 'root'
PathOrRoot(path) == IF path = "" THEN "root" ELSE path

\* `${path}[${i}]`, i counted from 0
IndexPath(path, i) == path \o "[" \o ToString(i) \o "]"

\* KeyPath without the test for the empty path: `${path}.${key}`
AlwaysDotted(path, key) == path \o "." \o key

\* path ? `${path}.${key}` : key
KeyPath(path, key) == IF path # "" THEN path \o "." \o key ELSE key

\* Max as Math.min: the loop stops at the shorter array
MinLength(a, b) == IF a <= b THEN a ELSE b

\* Max as left.length: the loop stops at the end of the left array
LeftLength(a, b) == a

\* Math.max
Max(a, b) == IF a >= b THEN a ELSE b

RECURSIVE generateSmartJsonDiff(_, _, _)

\* PrimitiveDiff reporting differences only
OnlyChanges(l, r, path) ==
    IF ~isEqual(l, r)
    THEN <<DiffRecord(PathOrRoot(path), "changed", l, r)>>
    ELSE <<>>

\* one side is a primitive value (or null): one record, changed or unchanged
PrimitiveDiff(l, r, path) ==
    IF ~isEqual(l, r)
    THEN <<DiffRecord(PathOrRoot(path), "changed", l, r)>>
    ELSE <<DiffRecord(PathOrRoot(path), "unchanged", l, r)>>

\* TypeMismatchDiff reporting nothing
NoMismatch(l, r, path) == <<>>

\* an array against an object: one changed record
TypeMismatchDiff(l, r, path) ==
    <<DiffRecord(PathOrRoot(path), "changed", l, r)>>

\* two arrays, index by index
ArrayDiff(l, r, path) ==
    LET maxLength == Max(Len(l.items), Len(r.items))
        \* the loop from index i (counted from 0) on
        loop[i \in 0..maxLength] ==
            IF i >= maxLength THEN <<>>
            ELSE LET currentPath == IndexPath(path, i)
                     step == IF i >= Len(l.items)
                             THEN <<DiffRecord(currentPath, "added", Undefined, r.items[i + 1])>>
                             ELSE IF i >= Len(r.items)
                             THEN <<DiffRecord(currentPath, "removed", l.items[i + 1], Undefined)>>
                             ELSE generateSmartJsonDiff(l.items[i + 1], r.items[i + 1], currentPath)
                 IN  step \o loop[i + 1]
    IN  loop[0]

\* ObjectDiff comparing the properties of the two objects by position, the
\* j-th of left with the j-th of right
ObjectDiffByPosition(l, r, path) ==
    LET common == IF Len(l.keys) <= Len(r.keys) THEN Len(l.keys) ELSE Len(r.keys)
        loop[j \in 1..(common + 1)] ==
            IF j > common THEN <<>>
            ELSE generateSmartJsonDiff(l.items[j], r.items[j], KeyPath(path, l.keys[j]))
                 \o loop[j + 1]
    IN  loop[1]

\* two objects, key by key of the union of their keys
ObjectDiff(l, r, path) ==
    LET leftKeys == ObjectKeys(l)
        rightKeys == ObjectKeys(r)
        allKeys == Dedup(leftKeys \o rightKeys)
        \* the loop from the j-th key of allKeys on
        loop[j \in 1..(Len(allKeys) + 1)] ==
            IF j > Len(allKeys) THEN <<>>
            ELSE LET key == allKeys[j]
                     currentPath == KeyPath(path, key)
                     leftHasKey == Includes(leftKeys, key)
                     rightHasKey == Includes(rightKeys, key)
                     step == IF leftHasKey /\ rightHasKey
                             THEN generateSmartJsonDiff(Get(l, key), Get(r, key), currentPath)
                             ELSE IF leftHasKey /\ ~rightHasKey
                             THEN <<DiffRecord(currentPath, "removed", Get(l, key), Undefined)>>
                             ELSE IF ~leftHasKey /\ rightHasKey
                             THEN <<DiffRecord(currentPath, "added", Undefined, Get(r, key))>>
                             ELSE <<>>
                 IN  step \o loop[j + 1]
    IN  loop[1]

generateSmartJsonDiff(l, r, path) ==
    IF ~IsObjectType(l) \/ ~IsObjectType(r) THEN PrimitiveDiff(l, r, path)
    ELSE IF IsArray(l) # IsArray(r) THEN TypeMismatchDiff(l, r, path)
    ELSE IF IsArray(l) /\ IsArray(r) THEN ArrayDiff(l, r, path)
    ELSE ObjectDiff(l, r, path)

----------------------------------------------------------------------------
(* The documents the model compares *)

\* the scalars of the generated documents
Scalars == {Null, Num(1)}

\* the property names of the generated documents: the empty name, which
\* JSON allows, and a plain one. None is an array index ("0", "1", ...),
\* which Object.keys would enumerate first, whatever the order of the text
Keys == {"", "a"}

\* the sequences of distinct property names of a given length
KeySeqs(len) == {ks \in [1..len -> Keys] : \A i, j \in 1..len : ks[i] = ks[j] => i = j}

\* the containers whose children are a sequence of elems
Containers(elems) ==
    {Arr(elems)} \cup {Obj(ks, elems) : ks \in KeySeqs(Len(elems))}

\* the values of exactly m nodes, given seqs, the sequences of values of
\* m - 1 nodes in all
ValuesOfSize(m, seqs) ==
    (IF m = 1 THEN Scalars ELSE {}) \cup UNION {Containers(elems) : elems \in seqs}

\* prev, a table of the values and of the sequences of values of each number
\* of nodes below m, extended to m
Extend(prev, m) ==
    LET vals == ValuesOfSize(m, prev[m - 1].seqs)
        seqs == UNION {{<<v>> \o rest : v \in (IF j = m THEN vals ELSE prev[j].vals),
                                         rest \in prev[m - j].seqs} : j \in 1..m}
    IN  [j \in 0..m |-> IF j < m THEN prev[j] ELSE [vals |-> vals, seqs |-> seqs]]

\* Gen[m][j], for j in 0..m: vals, the values of exactly j nodes, and
\* seqs, the sequences of values of j nodes in all
Gen[m \in Nat] ==
    IF m = 0 THEN [j \in {0} |-> [vals |-> {}, seqs |-> {<<>>}]]
    ELSE Extend(Gen[m - 1], m)

\* the values of at most m nodes, m >= 1
ValuesBelow(prev, m) ==
    UNION {prev[j].vals : j \in 0..(m - 1)} \cup ValuesOfSize(m, prev[m - 1].seqs)

ValuesUpTo(m) == ValuesBelow(Gen[m - 1], m)

\* the values obtained from v by reordering the keys of its objects, at
\* any level (v itself included)
RECURSIVE Reorderings(_), ReorderEach(_)
Reorderings(v) ==
    IF ~IsObjectType(v) THEN {v}
    ELSE LET len == Len(v.items)
             perms == {p \in [1..len -> 1..len] : \A i, j \in 1..len : p[i] = p[j] => i = j}
         IN  IF IsArray(v) THEN {Arr(cs) : cs \in ReorderEach(v.items)}
             ELSE {Obj([i \in 1..len |-> v.keys[p[i]]], [i \in 1..len |-> cs[p[i]]]) :
                       cs \in ReorderEach(v.items), p \in perms}

\* the sequences of a reordering of each element of items
ReorderEach(items) ==
    IF items = <<>> THEN {<<>>}
    ELSE {<<h>> \o t : h \in Reorderings(Head(items)), t \in ReorderEach(Tail(items))}

\* the documents of the example of the specification:
\* {"a":1,"b":{"c":2}} and {"a":1,"b":{"c":3,"d":4}}
ExampleLeft == Obj(<<"a", "b">>, <<Num(1), Obj(<<"c">>, <<Num(2)>>)>>)

ExampleRight == Obj(<<"a", "b">>, <<Num(1), Obj(<<"c", "d">>, <<Num(3), Num(4)>>)>>)

\* {"b":{"c":1,"d":2},"a":3,"x":0} and {"a":3,"e":5,"b":{"d":2,"c":9}}
OrderLeft == Obj(<<"b", "a", "x">>, <<Obj(<<"c", "d">>, <<Num(1), Num(2)>>), Num(3), Num(0)>>)

OrderRight == Obj(<<"a", "e", "b">>, <<Num(3), Num(5), Obj(<<"d", "c">>, <<Num(2), Num(9)>>)>>)

\* documents compared beside the generated ones
Scenarios ==
    { <<Arr(<<Num(1), Num(2)>>), Arr(<<Num(2), Num(1)>>)>>,
      <<ExampleLeft, ExampleRight>>,
      <<OrderLeft, OrderRight>>,
      <<OrderRight, OrderLeft>>,
      <<Num(1), Str("1")>>,
      <<Str("a"), Str("b")>>,
      <<Bool(TRUE), Num(1)>>,
      <<Bool(TRUE), Bool(FALSE)>> }

\* the pairs of documents of the general specification
Inputs == (ValuesUpTo(MaxNodes) \X ValuesUpTo(MaxNodes)) \cup Scenarios

\* the pairs of a document and a reordering of it
SelfInputs == UNION {{<<v, w>> : w \in Reorderings(v)} : v \in ValuesUpTo(MaxNodesSelf)}

----------------------------------------------------------------------------
(* Strings: the text operations of JavaScript the tools rely on *)

\* the characters of the model's texts, in ascending order of code unit
CodeUnits == "\t\n\r \"(),-.0123456789:ABCDEFGHIJKLMNOPQRSTUVWXYZ[]_abcdefghijklmnopqrstuvwxyz{}"

UpperCase == "ABCDEFGHIJKLMNOPQRSTUVWXYZ"

LowerCase == "abcdefghijklmnopqrstuvwxyz"

Digits == "0123456789"

\* the white space String.prototype.trim removes and JSON.parse skips
WhiteSpace == {" ", "\t", "\n", "\r"}

\* text.charAt(i - 1): the i-th character, "" beyond the end
charAt(text, i) == IF i >= 1 /\ i <= Len(text) THEN SubSeq(text, i, i) ELSE ""

\* does c occur in the string chars
IsOneOf(c, chars) == \E i \in 1..Len(chars) : charAt(chars, i) = c

\* the place of c in chars, counted from 1
IndexIn(c, chars) == CHOOSE i \in 1..Len(chars) : charAt(chars, i) = c

\* c.charCodeAt(0), up to an increasing renumbering
charCodeAt(c) == IndexIn(c, CodeUnits)

\* the lower case of each character of the model's texts
LowerOf ==
    [c \in {charAt(CodeUnits, i) : i \in 1..Len(CodeUnits)} |->
        IF IsOneOf(c, UpperCase) THEN charAt(LowerCase, IndexIn(c, UpperCase)) ELSE c]

\* s.toLowerCase()
RECURSIVE toLowerCase(_)
toLowerCase(s) ==
    IF s = "" THEN "" ELSE LowerOf[charAt(s, 1)] \o toLowerCase(SubSeq(s, 2, Len(s)))

\* s.includes(t)
includes(s, t) ==
    \/ t = ""
    \/ \E i \in 1..(Len(s) - Len(t) + 1) : SubSeq(s, i, i + Len(t) - 1) = t

\* s.trim()
RECURSIVE trim(_)
trim(s) ==
    IF s = "" THEN ""
    ELSE IF charAt(s, 1) \in WhiteSpace THEN trim(SubSeq(s, 2, Len(s)))
    ELSE IF charAt(s, Len(s)) \in WhiteSpace THEN trim(SubSeq(s, 1, Len(s) - 1))
    ELSE s

\* a < b in the order of the default comparator of Array.prototype.sort:
\* code unit by code unit, a proper prefix first
RECURSIVE StringLess(_, _)
StringLess(a, b) ==
    IF b = "" THEN FALSE
    ELSE IF a = "" THEN TRUE
    ELSE IF charAt(a, 1) = charAt(b, 1) THEN StringLess(SubSeq(a, 2, Len(a)), SubSeq(b, 2, Len(b)))
    ELSE charCodeAt(charAt(a, 1)) < charCodeAt(charAt(b, 1))

\* strs.join(sep)
RECURSIVE join(_, _)
join(strs, sep) ==
    IF strs = <<>> THEN ""
    ELSE IF Len(strs) = 1 THEN strs[1]
    ELSE strs[1] \o sep \o join(Tail(strs), sep)

\* ' '.repeat(n)
RECURSIVE Spaces(_)
Spaces(n) == IF n = 0 THEN "" ELSE " " \o Spaces(n - 1)

\* the decimal numeral of a canonical array index, as a number
RECURSIVE ToNumber(_)
ToNumber(s) ==
    IF s = "" THEN 0
    ELSE 10 * ToNumber(SubSeq(s, 1, Len(s) - 1)) + (IndexIn(charAt(s, Len(s)), Digits) - 1)

----------------------------------------------------------------------------
(* Objects: the own properties of a JavaScript object, in the order        *)
(* Object.keys and JSON.stringify enumerate them: the array indices in     *)
(* ascending numeric order, then the other names in order of creation      *)

\* is key a canonical array index: "0", "1", ..., without a leading zero
IsArrayIndex(key) ==
    /\ key # ""
    /\ \A i \in 1..Len(key) : IsOneOf(charAt(key, i), Digits)
    /\ Len(key) = 1 \/ charAt(key, 1) # "0"

\* seq with x inserted as its p-th element
InsertAt(seq, p, x) == SubSeq(seq, 1, p - 1) \o <<x>> \o SubSeq(seq, p, Len(seq))

\* the place of a new property key among the properties keys
PlaceOf(keys, key) ==
    IF IsArrayIndex(key)
    THEN 1 + Cardinality({i \in 1..Len(keys) :
                            IsArrayIndex(keys[i]) /\ ToNumber(keys[i]) < ToNumber(key)})
    ELSE Len(keys) + 1

\* CreateDataProperty(obj, key, val): the own property key of obj is val
CreateDataProperty(obj, key, val) ==
    IF Includes(obj.keys, key)
    THEN LET i == CHOOSE j \in 1..Len(obj.keys) : obj.keys[j] = key
         IN  Obj(obj.keys, [obj.items EXCEPT ![i] = val])
    ELSE LET p == PlaceOf(obj.keys, key)
         IN  Obj(InsertAt(obj.keys, p, key), InsertAt(obj.items, p, val))

\* obj[key] = val on an object made by the literal {}: "__proto__" is the
\* accessor inherited from Object.prototype, so that the assignment sets
\* the prototype (or nothing) and creates no own property
PutValue(obj, key, val) ==
    IF key = "__proto__" THEN obj ELSE CreateDataProperty(obj, key, val)

----------------------------------------------------------------------------
(* JSON.stringify *)

\* QuoteJSONString, for the strings of the model, which need no escape
Quote(s) == "\"" \o s \o "\""

\* SerializeJSONProperty(value) under the gap of the call and the current
\* indentation
RECURSIVE Serialize(_, _, _)
Serialize(value, gap, indent) ==
    LET stepback == indent
        inner == indent \o gap
        n == Len(value.items)
        Wrap(open, partial, close) ==
            IF partial = <<>> THEN open \o close
            ELSE IF gap = "" THEN open \o join(partial, ",") \o close
            ELSE open \o "\n" \o inner \o join(partial, ",\n" \o inner)
                      \o "\n" \o stepback \o close
    IN  IF value.t = "null" THEN "null"
        ELSE IF value.t = "boolean" THEN (IF value.n = 1 THEN "true" ELSE "false")
        ELSE IF value.t = "number" THEN ToString(value.n)
        ELSE IF value.t = "string" THEN Quote(value.s)
        ELSE IF value.t = "array"
             THEN Wrap("[", [i \in 1..n |-> Serialize(value.items[i], gap, inner)], "]")
        ELSE Wrap("{", [i \in 1..n |-> Quote(value.keys[i])
                                          \o (IF gap = "" THEN ":" ELSE ": ")
                                          \o Serialize(value.items[i], gap, inner)], "}")

\* JSON.stringify(value, null, space): space = 0 stands for the call
\* without a third argument; the gap is at most ten spaces
JSONStringify(value, space) == Serialize(value, Spaces(IF space > 10 THEN 10 ELSE space), "")

----------------------------------------------------------------------------
(* JSON.parse, character by character. The texts of the model hold         *)
(* integers and strings without escapes.                                   *)

\* the result of a parsing step: the value read and the place after it,
\* or a failure
Parsed(value, pos) == [ok |-> TRUE, value |-> value, pos |-> pos]

Failure == [ok |-> FALSE, value |-> Undefined, pos |-> 0]

\* the first place from i on that holds no white space
RECURSIVE SkipWhiteSpace(_, _)
SkipWhiteSpace(text, i) ==
    IF charAt(text, i) \in WhiteSpace THEN SkipWhiteSpace(text, i + 1) ELSE i

\* the first place from i on that holds no digit
RECURSIVE SkipDigits(_, _)
SkipDigits(text, i) ==
    IF charAt(text, i) # "" /\ IsOneOf(charAt(text, i), Digits) THEN SkipDigits(text, i + 1) ELSE i

\* the first place from i on that holds a quote, a control character or
\* nothing
RECURSIVE SkipStringChars(_, _)
SkipStringChars(text, i) ==
    IF charAt(text, i) \in {"", "\"", "\t", "\n", "\r"} THEN i ELSE SkipStringChars(text, i + 1)

\* a literal: null, true, false
ParseLiteral(text, i, word, value) ==
    IF i + Len(word) - 1 <= Len(text) /\ SubSeq(text, i, i + Len(word) - 1) = word
    THEN Parsed(value, i + Len(word))
    ELSE Failure

\* a string, its opening quote at i
ParseString(text, i) ==
    LET end == SkipStringChars(text, i + 1)
    IN  IF charAt(text, end) = "\"" THEN Parsed(Str(SubSeq(text, i + 1, end - 1)), end + 1)
        ELSE Failure

\* a number: an optional sign, then 0 or digits without a leading zero
ParseNumber(text, i) ==
    LET start == IF charAt(text, i) = "-" THEN i + 1 ELSE i
        end == SkipDigits(text, start)
        magnitude == ToNumber(SubSeq(text, start, end - 1))
    IN  IF end = start THEN Failure
        ELSE IF end - start > 1 /\ charAt(text, start) = "0" THEN Failure
        ELSE Parsed(Num(IF start > i THEN 0 - magnitude ELSE magnitude), end)

\* propertyOrder: the properties of an object are enumerated as JavaScript
\* does; otherwise in the order of their first occurrence in the text
RECURSIVE ParseValue(_, _, _), ParseElements(_, _, _, _), ParseMembers(_, _, _, _)
ParseValue(text, from, propertyOrder) ==
    LET i == SkipWhiteSpace(text, from)
        c == charAt(text, i)
        next == SkipWhiteSpace(text, i + 1)
    IN  IF c = "n" THEN ParseLiteral(text, i, "null", Null)
        ELSE IF c = "t" THEN ParseLiteral(text, i, "true", Bool(TRUE))
        ELSE IF c = "f" THEN ParseLiteral(text, i, "false", Bool(FALSE))
        ELSE IF c = "\"" THEN ParseString(text, i)
        ELSE IF c = "-" \/ (c # "" /\ IsOneOf(c, Digits)) THEN ParseNumber(text, i)
        ELSE IF c = "["
             THEN IF charAt(text, next) = "]" THEN Parsed(Arr(<<>>), next + 1)
                  ELSE ParseElements(text, next, <<>>, propertyOrder)
        ELSE IF c = "{"
             THEN IF charAt(text, next) = "}" THEN Parsed(Obj(<<>>, <<>>), next + 1)
                  ELSE ParseMembers(text, next, Obj(<<>>, <<>>), propertyOrder)
        ELSE Failure

\* the elements of an array from i on, elems being those read so far
ParseElements(text, i, elems, propertyOrder) ==
    LET elem == ParseValue(text, i, propertyOrder)
        after == SkipWhiteSpace(text, elem.pos)
    IN  IF ~elem.ok THEN Failure
        ELSE IF charAt(text, after) = ","
             THEN ParseElements(text, after + 1, Append(elems, elem.value), propertyOrder)
        ELSE IF charAt(text, after) = "]" THEN Parsed(Arr(Append(elems, elem.value)), after + 1)
        ELSE Failure

\* the members of an object from i on, obj holding those read so far; a
\* name that occurs again replaces the value of its property
ParseMembers(text, from, obj, propertyOrder) ==
    LET i == SkipWhiteSpace(text, from)
        name == IF charAt(text, i) = "\"" THEN ParseString(text, i) ELSE Failure
        colon == SkipWhiteSpace(text, name.pos)
        member == IF name.ok /\ charAt(text, colon) = ":"
                  THEN ParseValue(text, colon + 1, propertyOrder) ELSE Failure
        after == SkipWhiteSpace(text, member.pos)
        key == name.value.s
        defined == IF propertyOrder \/ Includes(obj.keys, key)
                   THEN CreateDataProperty(obj, key, member.value)
                   ELSE Obj(Append(obj.keys, key), Append(obj.items, member.value))
    IN  IF ~member.ok THEN Failure
        ELSE IF charAt(text, after) = "," THEN ParseMembers(text, after + 1, defined, propertyOrder)
        ELSE IF charAt(text, after) = "}" THEN Parsed(defined, after + 1)
        ELSE Failure

\* a whole text: one value, white space around it and nothing else
ParseText(text, propertyOrder) ==
    LET r == ParseValue(text, 1, propertyOrder)
    IN  IF r.ok /\ SkipWhiteSpace(text, r.pos) > Len(text) THEN r ELSE Failure

\* JSON.parse(text): ok is FALSE where JSON.parse throws
JSONParse(text) == ParseText(text, TRUE)

----------------------------------------------------------------------------
(* The formatter of JsonTools *)

\* sorted, a sorted sequence of strings, with x put at its place
RECURSIVE InsertSorted(_, _)
InsertSorted(sorted, x) ==
    IF sorted = <<>> THEN <<x>>
    ELSE IF StringLess(x, Head(sorted)) THEN <<x>> \o sorted
    ELSE <<Head(sorted)>> \o InsertSorted(Tail(sorted), x)

\* sort without the comparison: the last element first
RECURSIVE Reversed(_)
Reversed(strs) ==
    IF strs = <<>> THEN <<>> ELSE Append(Reversed(Tail(strs)), Head(strs))

\* strs.sort(): ascending by code unit
RECURSIVE sort(_)
sort(strs) ==
    IF strs = <<>> THEN <<>>
    ELSE InsertSorted(sort(SubSeq(strs, 1, Len(strs) - 1)), strs[Len(strs)])

\* for (const key of sortedKeys) sortedObj[key] = vals(key), on sortedObj
RECURSIVE AssignEach(_, _, _)
AssignEach(sortedObj, sortedKeys, vals) ==
    IF sortedKeys = <<>> THEN sortedObj
    ELSE AssignEach(PutValue(sortedObj, Head(sortedKeys), vals[Head(sortedKeys)]),
                    Tail(sortedKeys), vals)

RECURSIVE sortObjectKeys(_)
sortObjectKeys(obj) ==
    IF ~IsObjectType(obj) THEN obj
    ELSE IF IsArray(obj) THEN Arr([i \in 1..Len(obj.items) |-> sortObjectKeys(obj.items[i])])
    ELSE LET sortedKeys == sort(ObjectKeys(obj))
             vals == [key \in Range(sortedKeys) |-> sortObjectKeys(Get(obj, key))]
         IN  AssignEach(Obj(<<>>, <<>>), sortedKeys, vals)

\* !text.trim() with the test for white space left out: text === ''
IsEmpty(text) == text = ""

\* !text.trim()
IsBlank(text) == trim(text) = ""

\* formattedJson with a catch that returns the text as it is
FormatOrEcho(text, indent, sorting, compact) ==
    IF JSONParse(text).ok THEN JSONStringify(JSONParse(text).value, indent) ELSE text

\* the formattedJson memo
FormatJson(text, indent, sorting, compact) ==
    IF IsBlank(text) THEN ""
    ELSE LET parsed == JSONParse(text)
         IN  IF ~parsed.ok THEN ""
             ELSE IF compact THEN JSONStringify(parsed.value, 0)
             ELSE IF sorting THEN JSONStringify(sortObjectKeys(parsed.value), indent)
             ELSE JSONStringify(parsed.value, indent)

\* the isValidJson memo
ValidateJson(text) == IsBlank(text) \/ JSONParse(text).ok

\* leftParsed or rightParsed of the diffResult memo, where the memo
\* reaches the call of generateSmartJsonDiff
ParsedForDiff(text, leftText, rightText) ==
    IF ~IsBlank(leftText) /\ ~IsBlank(rightText)
       /\ JSONParse(leftText).ok /\ JSONParse(rightText).ok
    THEN JSONParse(text).value
    ELSE Undefined

\* the diffResult memo from there on: the diff of the two parsed
\* documents, or [] where the memo returned before the call
DiffOfParsed(leftParsed, rightParsed) ==
    IF leftParsed = Undefined \/ rightParsed = Undefined THEN <<>>
    ELSE generateSmartJsonDiff(leftParsed, rightParsed, "")

\* the diffResult memo, for any two texts
DiffOfTexts(leftText, rightText) ==
    IF IsBlank(leftText) \/ IsBlank(rightText) THEN <<>>
    ELSE LET leftParsed == JSONParse(leftText)
             rightParsed == JSONParse(rightText)
         IN  IF leftParsed.ok /\ rightParsed.ok
             THEN generateSmartJsonDiff(leftParsed.value, rightParsed.value, "")
             ELSE <<>>

\* the values of the indent selector
IndentSizes == {2, 4, 8}

\* filteredDiffResult without the test of the switch: always the whole list
AllDiffs(diffs, onlyDiffs) == diffs

\* the filteredDiffResult memo
FilterDiffs(diffs, onlyDiffs) ==
    IF ~onlyDiffs THEN diffs ELSE SelectSeq(diffs, LAMBDA diff : diff.type # "unchanged")

\* the count of a badge: diffResult.filter(d => d.type === type).length
BadgeCount(diffs, type) == Len(SelectSeq(diffs, LAMBDA d : d.type = type))

\* the count of the badge of the tab: the records that are not unchanged
TabBadgeCount(diffs) == Len(SelectSeq(diffs, LAMBDA d : d.type # "unchanged"))

\* is the card of lines 635-641 shown, which says that the two documents
\* are identical: no record, and two texts that are not empty
ShowsIdentical(diffs, leftText, rightText) ==
    diffs = <<>> /\ leftText # "" /\ rightText # ""

----------------------------------------------------------------------------
(* The tree of JsonViewer *)

\* JsonNode with every row at depth 0
FlatNode(key, value, type, path, level, isExpanded, hasChildren) ==
    [key |-> key, value |-> value, type |-> type, path |-> path, level |-> 0,
     isExpanded |-> isExpanded, hasChildren |-> hasChildren, isVisible |-> TRUE]

\* a JsonNode, a row of the tree
JsonNode(key, value, type, path, level, isExpanded, hasChildren) ==
    [key |-> key, value |-> value, type |-> type, path |-> path, level |-> level,
     isExpanded |-> isExpanded, hasChildren |-> hasChildren, isVisible |-> TRUE]

\* the test of a condition on v: null, 0, false and '' are falsy
Truthy(v) ==
    IF v.t \in {"null", "undefined"} THEN FALSE
    ELSE IF v.t \in {"number", "boolean"} THEN v.n # 0
    ELSE IF v.t = "string" THEN v.s # ""
    ELSE TRUE

\* String(v)
RECURSIVE String(_)
String(v) ==
    IF v.t = "null" THEN "null"
    ELSE IF v.t = "undefined" THEN "undefined"
    ELSE IF v.t = "boolean" THEN (IF v.n = 1 THEN "true" ELSE "false")
    ELSE IF v.t = "number" THEN ToString(v.n)
    ELSE IF v.t = "string" THEN v.s
    ELSE IF v.t = "array"
         THEN join([i \in 1..Len(v.items) |->
                       IF v.items[i].t \in {"null", "undefined"} THEN ""
                       ELSE String(v.items[i])], ",")
    ELSE "[object Object]"

\* `${arrayPath}[${index}]`, index counted from 0
ItemPath(arrayPath, index) == arrayPath \o "[" \o ToString(index) \o "]"

\* parentPath ? `${parentPath}.${key}` : key
ChildPath(parentPath, key) == IF parentPath = "" THEN key ELSE parentPath \o "." \o key

\* the path of the i-th child of the container obj at path
PathOfChild(obj, path, i) ==
    IF IsArray(obj) THEN ItemPath(path, i - 1) ELSE ChildPath(path, ObjectKeys(obj)[i])

\* has without the set: every path counts as expanded
HasAny(paths, path) == TRUE

\* paths.has(path)
has(paths, path) == path \in paths

\* the concatenation of a sequence of sequences
RECURSIVE Concat(_)
Concat(seqs) == IF seqs = <<>> THEN <<>> ELSE Head(seqs) \o Concat(Tail(seqs))

\* parseJsonToNodes under the expandedPaths of the render
RECURSIVE parseJsonToNodes(_, _, _, _)
parseJsonToNodes(obj, parentPath, level, expanded) ==
    IF obj.t = "null"
    THEN <<JsonNode("null", Null, "null", parentPath, level, FALSE, FALSE)>>
    ELSE IF ~IsObjectType(obj)
    THEN <<JsonNode(String(obj), obj, obj.t, parentPath, level, FALSE, FALSE)>>
    ELSE LET n == Len(obj.items)
             isExpanded == has(expanded, parentPath)
             key == IF IsArray(obj) THEN "Array(" \o ToString(n) \o ")"
                    ELSE "Object{" \o ToString(n) \o "}"
             childNodes == [i \in 1..n |->
                              parseJsonToNodes(obj.items[i], PathOfChild(obj, parentPath, i),
                                               level + 1, expanded)]
         IN  <<JsonNode(key, obj, obj.t, parentPath, level, isExpanded, n > 0)>>
             \o (IF isExpanded THEN Concat(childNodes) ELSE <<>>)

\* getAllPaths that stops at the root
RootPathOnly(obj, parentPath) == <<parentPath>>

\* getAllPaths of expandAll: the path of every node, the leaves included
RECURSIVE getAllPaths(_, _)
getAllPaths(obj, parentPath) ==
    <<parentPath>>
    \o (IF Truthy(obj) /\ IsObjectType(obj)
        THEN Concat([i \in 1..Len(obj.items) |->
                        getAllPaths(obj.items[i], PathOfChild(obj, parentPath, i))])
        ELSE <<>>)

\* the nodes memo
NodesOf(parsed, expanded) ==
    IF ~Truthy(parsed) THEN <<>> ELSE parseJsonToNodes(parsed, "", 0, expanded)

\* the test of the filter of filteredNodes
matchesSearch(node, term) ==
    \/ includes(toLowerCase(node.path), toLowerCase(term))
    \/ includes(toLowerCase(String(node.value)), toLowerCase(term))

\* the filteredNodes memo
FilterNodes(rows, term) ==
    IF term = "" THEN rows ELSE SelectSeq(rows, LAMBDA node : matchesSearch(node, term))

\* getValueDisplay(node)
getValueDisplay(node) ==
    IF node.type = "string" THEN "\"" \o node.value.s \o "\""
    ELSE IF node.type = "null" THEN "null"
    ELSE IF node.type = "boolean" THEN (IF Truthy(node.value) THEN "true" ELSE "false")
    ELSE IF node.type = "number" THEN String(node.value)
    ELSE IF node.type = "object"
         THEN (IF node.isExpanded THEN "{...}"
               ELSE "{" \o ToString(Len(ObjectKeys(node.value))) \o "}")
    ELSE IF node.isExpanded THEN "[...]"
    ELSE "[" \o ToString(Len(node.value.items)) \o "]"

\* the value handleJsonInput stores for a text
ParsedOf(value) ==
    IF IsBlank(value) THEN Null
    ELSE LET parsed == JSONParse(value)
         IN  IF parsed.ok THEN parsed.value ELSE Null

\* does storing new over old change the parsedJson state: a parsed array
\* or object is a new reference, a primitive is compared by value
ParsedChanges(old, new) == IsObjectType(new) \/ new # old

\* ExpandedAfter without the effect: the expanded paths are kept
ExpandedKept(expanded, old, new) == expanded

\* the expandedPaths after the effect on parsedJson has run
ExpandedAfter(expanded, old, new) ==
    IF ParsedChanges(old, new) /\ new.t # "null" THEN {""} ELSE expanded

----------------------------------------------------------------------------
(* The texts the model types into the tools *)

\* the compact texts of the generated documents
GeneratedTexts == {JSONStringify(v, 0) : v \in ValuesUpTo(MaxNodes)}

\* does v hold a null, at any level
RECURSIVE HoldsNull(_)
HoldsNull(v) == v.t = "null" \/ \E i \in 1..Len(v.items) : HoldsNull(v.items[i])

\* the compact texts of the generated documents without a null
GeneratedViewerTexts == {JSONStringify(v, 0) : v \in {w \in ValuesUpTo(MaxNodes) : ~HoldsNull(w)}}

\* texts without a document: empty or white space only
BlankTexts == {"", " ", "\n\t "}

\* texts JSON.parse rejects
MalformedTexts == {"{a:1}", "[1,", "{\"a\":1,}", "nul", "01"}

\* texts typed into the formatter beside the generated ones: the example
\* of the specification, objects below objects and inside arrays, names
\* that are array indices, the name __proto__, a name given twice, white
\* space between the tokens, scalars
FormatScenarios ==
    { "{\"b\":1,\"a\":2}",
      "{\"b\":{\"d\":1,\"c\":2},\"a\":[{\"z\":true,\"y\":\"s\"},[]]}",
      "{\"b\":3,\"10\":1,\"9\":2}",
      "{\"__proto__\":1,\"a\":2}",
      "[{\"__proto__\":{\"b\":1,\"a\":2}}]",
      "{\"a\":1,\"a\":2}",
      " [ 1 , -2 ]\n",
      "{\n  \"B\": {},\n  \"a\": false\n}",
      "\"Hello\"", "true", "0" }

FormatTexts == GeneratedTexts \cup BlankTexts \cup MalformedTexts \cup FormatScenarios

\* texts typed over a text of the formatter
FormatEdits == {"{\"b\":1,\"a\":2}", " ", "{a:1}"}

\* texts typed into the viewer beside the generated ones: the falsy
\* documents, scalars, nulls below a container, a property of empty name,
\* deeper documents
ViewerScenarios ==
    { "0", "false", "\"\"", "null", "1", "true", "\"Hello\"",
      "[null,{\"a\":null}]",
      "{\"\":{\"a\":1}}",
      "{\"a\":{\"b\":[1,{\"c\":2}]}}",
      "[1,2]",
      "[[1,[2]],\"A\",{}]" }

ViewerTexts == GeneratedViewerTexts \cup BlankTexts \cup MalformedTexts \cup ViewerScenarios

\* texts typed over a text of the viewer
ViewerEdits == {"", "[1,", "[1]", "1 "}

\* documents typed into the diff tab: equal ones, ones that differ in a
\* value, in a key, in the order of keys, in length; empty containers
DiffScenarios ==
    { "{}", "[]", "1", "null",
      "{\"a\":1}", "{\"a\":2}", "{\"b\":1,\"a\":1}", "{\"a\":1,\"b\":1}",
      "[1,2]", "[1]", " [ 1 , 2 ] ",
      "{\"a\":1,\"b\":{\"c\":2}}", "{\"a\":1,\"b\":{\"c\":3,\"d\":4}}" }

\* texts typed into the diff tab
DiffTexts == BlankTexts \cup MalformedTexts \cup DiffScenarios

\* texts typed over a text of the diff tab
DiffEdits == {"{\"a\":1}", "{a:1}", " "}

\* the terms typed into the search box
SearchTerms == {"", "A", "1", "obj"}

----------------------------------------------------------------------------
(* The state machine: the diff of two parsed documents; the formatter of  *)
(* a text under its options; the viewer of a text under its expanded      *)
(* paths and its search term                                               *)

TypeOK ==
    /\ pc \in {"idle", "input", "done"}
    /\ pc # "done" => diffResult = <<>>
    /\ indentSize \in IndentSizes
    /\ sortKeys \in BOOLEAN /\ compactMode \in BOOLEAN /\ isValidJson \in BOOLEAN
    /\ showOnlyDiffs \in BOOLEAN

\* the diff tab before any text is typed
DiffIdle ==
    /\ leftJson = "" /\ rightJson = "" /\ showOnlyDiffs = FALSE
    /\ left = Undefined /\ right = Undefined
    /\ diffResult = <<>> /\ filteredDiffResult = <<>>
    /\ pc = "idle"

\* the formatter as constructed
FormatIdle ==
    /\ jsonInput = ""
    /\ indentSize = 2 /\ sortKeys = FALSE /\ compactMode = FALSE
    /\ formattedJson = "" /\ isValidJson = TRUE

\* the viewer as constructed
ViewerIdle ==
    /\ viewerInput = "" /\ searchTerm = ""
    /\ expandedPaths = {} /\ parsedJson = Null
    /\ nodes = <<>> /\ filteredNodes = <<>>

\* two texts that parse have been typed into the diff tab
Init ==
    /\ \E p \in Inputs : left = p[1] /\ right = p[2]
    /\ leftJson = JSONStringify(left, 0) /\ rightJson = JSONStringify(right, 0)
    /\ showOnlyDiffs = FALSE
    /\ diffResult = <<>> /\ filteredDiffResult = <<>>
    /\ pc = "input"
    /\ FormatIdle /\ ViewerIdle

InitSelf ==
    /\ \E p \in SelfInputs : left = p[1] /\ right = p[2]
    /\ leftJson = JSONStringify(left, 0) /\ rightJson = JSONStringify(right, 0)
    /\ showOnlyDiffs = FALSE
    /\ diffResult = <<>> /\ filteredDiffResult = <<>>
    /\ pc = "input"
    /\ FormatIdle /\ ViewerIdle

\* the diffResult memo, for two texts that parse, and the
\* filteredDiffResult memo
RunDiff ==
    /\ pc = "input"
    /\ diffResult' = generateSmartJsonDiff(left, right, "")
    /\ filteredDiffResult' = FilterDiffs(diffResult', showOnlyDiffs)
    /\ pc' = "done"
    /\ UNCHANGED <<leftJson, rightJson, showOnlyDiffs, left, right, formatVars, viewerVars>>

Next == RunDiff

Spec == Init /\ [][Next]_vars

SpecSelf == InitSelf /\ [][Next]_vars

\* the diff tab after two texts are typed into it
InitDiff ==
    /\ FormatIdle /\ ViewerIdle
    /\ leftJson \in DiffTexts /\ rightJson \in DiffTexts
    /\ showOnlyDiffs = FALSE
    /\ left = ParsedForDiff(leftJson, leftJson, rightJson)
    /\ right = ParsedForDiff(rightJson, leftJson, rightJson)
    /\ diffResult = DiffOfParsed(left, right)
    /\ filteredDiffResult = FilterDiffs(diffResult, showOnlyDiffs)
    /\ pc = "done"

\* the render after a change of the diff tab's state: both memos
RenderDiff ==
    /\ left' = ParsedForDiff(leftJson', leftJson', rightJson')
    /\ right' = ParsedForDiff(rightJson', leftJson', rightJson')
    /\ diffResult' = DiffOfParsed(left', right')
    /\ filteredDiffResult' = FilterDiffs(diffResult', showOnlyDiffs')
    /\ pc' = "done"
    /\ UNCHANGED <<formatVars, viewerVars>>

\* onChange of the left text area
SetLeftJson(text) ==
    /\ leftJson' = text
    /\ UNCHANGED <<rightJson, showOnlyDiffs>>
    /\ RenderDiff

\* onChange of the right text area
SetRightJson(text) ==
    /\ rightJson' = text
    /\ UNCHANGED <<leftJson, showOnlyDiffs>>
    /\ RenderDiff

\* the clear button of the diff tab
ClearDiff ==
    /\ leftJson' = "" /\ rightJson' = ""
    /\ UNCHANGED showOnlyDiffs
    /\ RenderDiff

\* onChange of the switch "show only differences"
SetShowOnlyDiffs(checked) ==
    /\ showOnlyDiffs' = checked
    /\ UNCHANGED <<leftJson, rightJson>>
    /\ RenderDiff

NextDiff ==
    \/ \E text \in DiffEdits : SetLeftJson(text)
    \/ \E text \in DiffEdits : SetRightJson(text)
    \/ ClearDiff
    \/ \E checked \in BOOLEAN : SetShowOnlyDiffs(checked)

SpecDiff == InitDiff /\ [][NextDiff]_vars

\* the formatter after a text is typed into it
InitFormat ==
    /\ DiffIdle /\ ViewerIdle
    /\ jsonInput \in FormatTexts
    /\ indentSize = 2 /\ sortKeys = FALSE /\ compactMode = FALSE
    /\ formattedJson = FormatJson(jsonInput, indentSize, sortKeys, compactMode)
    /\ isValidJson = ValidateJson(jsonInput)

\* the render after a change of the formatter's state: both memos
RenderFormat ==
    /\ formattedJson' = FormatJson(jsonInput', indentSize', sortKeys', compactMode')
    /\ isValidJson' = ValidateJson(jsonInput')
    /\ UNCHANGED <<diffVars, viewerVars>>

\* onChange of the text area
SetJsonInput(text) ==
    /\ jsonInput' = text
    /\ UNCHANGED <<indentSize, sortKeys, compactMode>>
    /\ RenderFormat

\* the clear button
ClearJsonInput ==
    /\ jsonInput' = ""
    /\ UNCHANGED <<indentSize, sortKeys, compactMode>>
    /\ RenderFormat

\* onChange of the indent selector
SetIndentSize(size) ==
    /\ indentSize' = size
    /\ UNCHANGED <<jsonInput, sortKeys, compactMode>>
    /\ RenderFormat

\* onChange of the sort switch
SetSortKeys(checked) ==
    /\ sortKeys' = checked
    /\ UNCHANGED <<jsonInput, indentSize, compactMode>>
    /\ RenderFormat

\* onChange of the compact switch
SetCompactMode(checked) ==
    /\ compactMode' = checked
    /\ UNCHANGED <<jsonInput, indentSize, sortKeys>>
    /\ RenderFormat

NextFormat ==
    \/ \E text \in FormatEdits : SetJsonInput(text)
    \/ ClearJsonInput
    \/ \E size \in IndentSizes : SetIndentSize(size)
    \/ \E checked \in BOOLEAN : SetSortKeys(checked)
    \/ \E checked \in BOOLEAN : SetCompactMode(checked)

SpecFormat == InitFormat /\ [][NextFormat]_vars

\* RenderViewer with a nodes memo that depends on parsedJson alone
RenderViewerStale ==
    /\ nodes' = IF parsedJson' = parsedJson THEN nodes
                ELSE NodesOf(parsedJson', expandedPaths')
    /\ filteredNodes' = FilterNodes(nodes', searchTerm')
    /\ UNCHANGED <<diffVars, formatVars>>

\* the render after a change of the viewer's state: both memos
RenderViewer ==
    /\ nodes' = NodesOf(parsedJson', expandedPaths')
    /\ filteredNodes' = FilterNodes(nodes', searchTerm')
    /\ UNCHANGED <<diffVars, formatVars>>

\* the viewer after a text is typed into it
InitViewer ==
    /\ DiffIdle /\ FormatIdle
    /\ viewerInput \in ViewerTexts
    /\ searchTerm = ""
    /\ parsedJson = ParsedOf(viewerInput)
    /\ expandedPaths = ExpandedAfter({}, Null, parsedJson)
    /\ nodes = NodesOf(parsedJson, expandedPaths)
    /\ filteredNodes = FilterNodes(nodes, searchTerm)

\* handleJsonInput(value), then the effect on parsedJson
HandleJsonInput(value) ==
    /\ viewerInput' = value
    /\ parsedJson' = ParsedOf(value)
    /\ expandedPaths' = ExpandedAfter(expandedPaths, parsedJson, parsedJson')
    /\ UNCHANGED searchTerm
    /\ RenderViewer

\* toggleExpanded that forgets every expanded path when it collapses one
ToggleClearing(path) ==
    /\ Truthy(parsedJson)
    /\ \E i \in 1..Len(filteredNodes) :
          filteredNodes[i].hasChildren /\ filteredNodes[i].path = path
    /\ expandedPaths' = IF has(expandedPaths, path) THEN {} ELSE expandedPaths \cup {path}
    /\ UNCHANGED <<viewerInput, parsedJson, searchTerm>>
    /\ RenderViewer

\* toggleExpanded(path), from the button of a row that has children
ToggleExpanded(path) ==
    /\ Truthy(parsedJson)
    /\ \E i \in 1..Len(filteredNodes) :
          filteredNodes[i].hasChildren /\ filteredNodes[i].path = path
    /\ expandedPaths' = IF has(expandedPaths, path) THEN expandedPaths \ {path}
                        ELSE expandedPaths \cup {path}
    /\ UNCHANGED <<viewerInput, parsedJson, searchTerm>>
    /\ RenderViewer

\* expandAll, its button being enabled
ExpandAll ==
    /\ Truthy(parsedJson)
    /\ expandedPaths' = Range(getAllPaths(parsedJson, ""))
    /\ UNCHANGED <<viewerInput, parsedJson, searchTerm>>
    /\ RenderViewer

\* collapseAll, its button being enabled
CollapseAll ==
    /\ Truthy(parsedJson)
    /\ expandedPaths' = {""}
    /\ UNCHANGED <<viewerInput, parsedJson, searchTerm>>
    /\ RenderViewer

\* setSearchTerm with every path expanded as well
SetSearchTermExpanding(term) ==
    /\ Truthy(parsedJson)
    /\ searchTerm' = term
    /\ expandedPaths' = Range(getAllPaths(parsedJson, ""))
    /\ UNCHANGED <<viewerInput, parsedJson>>
    /\ RenderViewer

\* onChange of the search box, shown while there is a document
SetSearchTerm(term) ==
    /\ Truthy(parsedJson)
    /\ searchTerm' = term
    /\ UNCHANGED <<viewerInput, parsedJson, expandedPaths>>
    /\ RenderViewer

NextViewer ==
    \/ \E value \in ViewerEdits : HandleJsonInput(value)
    \/ \E path \in {filteredNodes[i].path : i \in 1..Len(filteredNodes)} : ToggleExpanded(path)
    \/ ExpandAll
    \/ CollapseAll
    \/ \E term \in SearchTerms : SetSearchTerm(term)

SpecViewer == InitViewer /\ [][NextViewer]_vars

----------------------------------------------------------------------------
(* Vocabulary of the properties *)

Added(p, x) == [path |-> p, type |-> "added", leftValue |-> Undefined, rightValue |-> x]

Removed(p, x) == [path |-> p, type |-> "removed", leftValue |-> x, rightValue |-> Undefined]

Changed(p, x, y) == [path |-> p, type |-> "changed", leftValue |-> x, rightValue |-> y]

Unchanged(p, x, y) == [path |-> p, type |-> "unchanged", leftValue |-> x, rightValue |-> y]

IsContainer(v) == v.t = "array" \/ v.t = "object"

BothArrays(l, r) == l.t = "array" /\ r.t = "array"

BothObjects(l, r) == l.t = "object" /\ r.t = "object"

\* the path of element i (counted from 0) of the array at path p
ElemPath(p, i) == p \o "[" \o ToString(i) \o "]"

\* the path of property k of the object at path p
PropPath(p, k) == IF p = "" THEN k ELSE p \o "." \o k

\* the path a record carries for the node at path p
Label(p) == IF p = "" THEN "root" ELSE p

KeySet(o) == {o.keys[i] : i \in 1..Len(o.keys)}

Prop(o, k) == o.items[CHOOSE i \in 1..Len(o.keys) : o.keys[i] = k]

Larger(a, b) == IF a < b THEN b ELSE a

Smaller(a, b) == IF a < b THEN a ELSE b

\* the concatenation of a sequence of sequences
RECURSIVE Flatten(_)
Flatten(ss) == IF ss = <<>> THEN <<>> ELSE Head(ss) \o Flatten(Tail(ss))

\* the elements of a finite set, in some order
RECURSIVE SomeOrder(_)
SomeOrder(S) ==
    IF S = {} THEN <<>>
    ELSE LET x == CHOOSE y \in S : TRUE IN <<x>> \o SomeOrder(S \ {x})

Count(x, seq) == Cardinality({i \in 1..Len(seq) : seq[i] = x})

\* the same records, each as many times, in any order
SameBag(a, b) ==
    /\ Len(a) = Len(b)
    /\ \A x \in Range(a) \cup Range(b) : Count(x, a) = Count(x, b)

\* the diff steps of a comparison: the pair (l, r) at path p, and the steps
\* of every pair of children the comparison descends into
RECURSIVE Sites(_, _, _, _)
Sites(l, r, p, root) ==
    {[l |-> l, r |-> r, path |-> p, root |-> root]}
    \cup (IF BothArrays(l, r)
          THEN UNION {Sites(l.items[i], r.items[i], ElemPath(p, i - 1), FALSE) :
                          i \in 1..Smaller(Len(l.items), Len(r.items))}
          ELSE IF BothObjects(l, r)
          THEN UNION {Sites(Prop(l, k), Prop(r, k), PropPath(p, k), FALSE) :
                          k \in KeySet(l) \cap KeySet(r)}
          ELSE {})

\* the records of a diff step: of the step at the documents, the records
\* the program holds
RecordsAt(s) ==
    IF s.root THEN diffResult ELSE generateSmartJsonDiff(s.l, s.r, s.path)

\* what index i (counted from 0) contributes to the diff of two arrays
ArrayBlock(s, i) ==
    IF i >= Len(s.l.items) THEN <<Added(ElemPath(s.path, i), s.r.items[i + 1])>>
    ELSE IF i >= Len(s.r.items) THEN <<Removed(ElemPath(s.path, i), s.l.items[i + 1])>>
    ELSE generateSmartJsonDiff(s.l.items[i + 1], s.r.items[i + 1], ElemPath(s.path, i))

\* what key k contributes to the diff of two objects
ObjectBlock(s, k) ==
    IF k \in KeySet(s.l) /\ k \in KeySet(s.r)
    THEN generateSmartJsonDiff(Prop(s.l, k), Prop(s.r, k), PropPath(s.path, k))
    ELSE IF k \in KeySet(s.l) THEN <<Removed(PropPath(s.path, k), Prop(s.l, k))>>
    ELSE <<Added(PropPath(s.path, k), Prop(s.r, k))>>

----------------------------------------------------------------------------
(* Properties of the diff engine *)

\* C1: the diff of two arrays is positional: index by index up to the
\* larger length, one added record for an index only right has, one removed
\* record for an index only left has, and otherwise the diff of the two
\* elements; [1,2] against [2,1] gives two changed records, at [0] and [1].
ArrayDiffIsPositional ==
    pc = "done" =>
       /\ \A s \in Sites(left, right, "", TRUE) :
             BothArrays(s.l, s.r) =>
                RecordsAt(s) =
                   Flatten([k \in 1..Larger(Len(s.l.items), Len(s.r.items)) |->
                               ArrayBlock(s, k - 1)])
       /\ (left = Arr(<<Num(1), Num(2)>>) /\ right = Arr(<<Num(2), Num(1)>>)) =>
             diffResult = <<Changed("[0]", Num(1), Num(2)), Changed("[1]", Num(2), Num(1))>>

\* two arrays of different lengths with an index in common have been compared
ArrayDiffWitness ==
    /\ pc = "done"
    /\ BothArrays(left, right)
    /\ Len(left.items) > Len(right.items)
    /\ Len(right.items) >= 1
    /\ \E i \in 1..Len(diffResult) : diffResult[i].type = "removed"

\* C2: the diff of two objects visits each key of the union of the key sets
\* once: the diff of the two values for a key of both, one removed record
\* for a key of left only, one added record for a key of right only.
ObjectDiffVisitsUnion ==
    pc = "done" =>
       \A s \in Sites(left, right, "", TRUE) :
          BothObjects(s.l, s.r) =>
             LET ks == SomeOrder(KeySet(s.l) \cup KeySet(s.r))
             IN  SameBag(RecordsAt(s), Flatten([j \in 1..Len(ks) |-> ObjectBlock(s, ks[j])]))

\* two objects with a key in common, a key of left only and a key of right
\* only have been compared
ObjectDiffWitness ==
    /\ pc = "done"
    /\ BothObjects(left, right)
    /\ KeySet(left) \cap KeySet(right) # {}
    /\ KeySet(left) \ KeySet(right) # {}
    /\ KeySet(right) \ KeySet(left) # {}
    /\ \E i, j \in 1..Len(diffResult) :
          diffResult[i].type = "removed" /\ diffResult[j].type = "added"

\* left's keys in left's order, then the keys of right only in right's order
UnionOrder(l, r) ==
    LET OnlyRight(k) == k \notin KeySet(l) IN l.keys \o SelectSeq(r.keys, OnlyRight)

\* the records of a comparison in document order: the children of an array
\* by increasing index, the children of an object in union order, the
\* records of a child all before those of the next
RECURSIVE DocumentOrder(_, _, _)
DocumentOrder(l, r, p) ==
    IF BothArrays(l, r)
    THEN Flatten([k \in 1..Larger(Len(l.items), Len(r.items)) |->
                     IF k > Len(l.items) THEN <<Added(ElemPath(p, k - 1), r.items[k])>>
                     ELSE IF k > Len(r.items) THEN <<Removed(ElemPath(p, k - 1), l.items[k])>>
                     ELSE DocumentOrder(l.items[k], r.items[k], ElemPath(p, k - 1))])
    ELSE IF BothObjects(l, r)
    THEN LET ks == UnionOrder(l, r)
         IN  Flatten([j \in 1..Len(ks) |->
                         IF ks[j] \notin KeySet(r) THEN <<Removed(PropPath(p, ks[j]), Prop(l, ks[j]))>>
                         ELSE IF ks[j] \notin KeySet(l) THEN <<Added(PropPath(p, ks[j]), Prop(r, ks[j]))>>
                         ELSE DocumentOrder(Prop(l, ks[j]), Prop(r, ks[j]), PropPath(p, ks[j]))])
    ELSE IF l = r THEN <<Unchanged(Label(p), l, r)>>
    ELSE <<Changed(Label(p), l, r)>>

\* C3: the records of a diff are in document order: array children by
\* increasing index, object children in union order (left's keys in left's
\* order, then the keys of right only in right's order), the records of one
\* child contiguous and before those of the next sibling.
RecordsInDocumentOrder ==
    pc = "done" => diffResult = DocumentOrder(left, right, "")

\* OrderLeft has been compared with OrderRight: a child of two records
\* first, then its sibling, then a key of left only, then a key of right only
DocumentOrderWitness ==
    /\ pc = "done"
    /\ left = OrderLeft
    /\ right = OrderRight
    /\ Len(diffResult) = 5
    /\ [i \in 1..5 |-> diffResult[i].path] = <<"b.c", "b.d", "a", "x", "e">>

\* The example of the specification, as the specification gives it: changed
\* at b.c, added at b.d, unchanged at a, in this order.
ExampleAsSpecified ==
    (pc = "done" /\ left = ExampleLeft /\ right = ExampleRight) =>
       diffResult = <<Changed("b.c", Num(2), Num(3)), Added("b.d", Num(4)),
                      Unchanged("a", Num(1), Num(1))>>

\* C4: the diff of {"a":1,"b":{"c":2}} and {"a":1,"b":{"c":3,"d":4}} is
\* three records, in the order of left's keys: unchanged at a (1, 1),
\* changed at b.c (2, 3), added at b.d (4).
ExampleInKeyOrder ==
    (pc = "done" /\ left = ExampleLeft /\ right = ExampleRight) =>
       diffResult = <<Unchanged("a", Num(1), Num(1)), Changed("b.c", Num(2), Num(3)),
                      Added("b.d", Num(4))>>

\* the two documents of the example have been compared
ExampleWitness ==
    /\ pc = "done"
    /\ left = ExampleLeft
    /\ right = ExampleRight
    /\ Len(diffResult) = 3

\* C5: a diff step with a side that is no container, or with an array on
\* one side and an object on the other, gives one record at the path of the
\* step and descends no further: changed if the two values are not deeply
\* equal, unchanged if they are. null against null is one unchanged record,
\* [] against {} one changed record.
LeafStepGivesOneRecord ==
    pc = "done" =>
       /\ \A s \in Sites(left, right, "", TRUE) :
             (~IsContainer(s.l) \/ ~IsContainer(s.r) \/ s.l.t # s.r.t) =>
                RecordsAt(s) = <<IF s.l = s.r THEN Unchanged(Label(s.path), s.l, s.r)
                                 ELSE Changed(Label(s.path), s.l, s.r)>>
       /\ (left = Null /\ right = Null) => diffResult = <<Unchanged("root", Null, Null)>>
       /\ (left = Arr(<<>>) /\ right = Obj(<<>>, <<>>)) =>
             diffResult = <<Changed("root", Arr(<<>>), Obj(<<>>, <<>>))>>

\* below the documents, a null has been compared with a null and a
\* container with a value of another kind
LeafStepWitness ==
    /\ pc = "done"
    /\ BothArrays(left, right)
    /\ Len(left.items) = 2 /\ Len(right.items) = 2
    /\ left.items[1] = Null /\ right.items[1] = Null
    /\ IsContainer(left.items[2]) /\ left.items[2].t # right.items[2].t
    /\ Len(diffResult) = 2

\* C6: no record of a diff has an empty path: a record for the document
\* carries the path "root", every other record its accumulated path, which
\* is not empty.
NoBlankPath ==
    pc = "done" => \A i \in 1..Len(diffResult) : diffResult[i].path # ""

\* C7: two nodes never get the same path: the records of a document
\* compared with itself, one for each leaf, have paths that differ.
PathsAddressOneNode ==
    (pc = "done" /\ left = right) =>
       \A i, j \in 1..Len(diffResult) : diffResult[i].path = diffResult[j].path => i = j

\* the values of a document that are no container, in document order
RECURSIVE Leaves(_)
Leaves(v) ==
    IF IsContainer(v) THEN Flatten([i \in 1..Len(v.items) |-> Leaves(v.items[i])])
    ELSE <<v>>

\* C8: the diff of a value with itself has unchanged records only, one for
\* each node that is no container; a container has no record of its own, an
\* empty one contributes none.
DiffOfValueWithItself ==
    (pc = "done" /\ left = right) =>
       /\ \A i \in 1..Len(diffResult) :
             /\ diffResult[i].type = "unchanged"
             /\ diffResult[i].rightValue = diffResult[i].leftValue
       /\ [i \in 1..Len(diffResult) |-> diffResult[i].leftValue] = Leaves(left)

\* a document with an empty container, a container that is not empty and a
\* leaf has been compared with itself
DiffWithItselfWitness ==
    /\ pc = "done"
    /\ left = right
    /\ IsContainer(left)
    /\ \E i, j \in 1..Len(left.items) :
          /\ IsContainer(left.items[i]) /\ left.items[i].items = <<>>
          /\ IsContainer(left.items[j]) /\ left.items[j].items # <<>>
    /\ Len(diffResult) >= 1

\* a record with the two sides exchanged
Mirrored(rec) ==
    [path |-> rec.path,
     type |-> IF rec.type = "added" THEN "removed"
              ELSE IF rec.type = "removed" THEN "added" ELSE rec.type,
     leftValue |-> rec.rightValue,
     rightValue |-> rec.leftValue]

IsDifference(rec) == rec.type \in {"added", "removed", "changed"}

\* C9: diff(a, b) has an added record at p with x iff diff(b, a) has a
\* removed record at p with x, and a changed record at p with (x, y) iff
\* diff(b, a) has a changed record at p with (y, x).
DiffSymmetry ==
    pc = "done" =>
       LET back == generateSmartJsonDiff(right, left, "")
       IN  /\ \A i \in 1..Len(diffResult) :
                 IsDifference(diffResult[i]) => Mirrored(diffResult[i]) \in Range(back)
           /\ \A j \in 1..Len(back) :
                 IsDifference(back[j]) => Mirrored(back[j]) \in Range(diffResult)

\* a diff with an added and a changed record
DiffSymmetryWitness ==
    /\ pc = "done"
    /\ \E i, j \in 1..Len(diffResult) :
          diffResult[i].type = "added" /\ diffResult[j].type = "changed"

\* C10: the comparison of objects does not depend on the order of the keys:
\* the diff of an object and a reordering of its keys, at any level, has
\* unchanged records only, and the deep equality of the leaves holds of two
\* values that differ in the order of keys only.
KeyOrderIndependence ==
    pc = "done" =>
       /\ \A i \in 1..Len(diffResult) : diffResult[i].type = "unchanged"
       /\ isEqual(left, right)
       /\ isEqual(right, left)

\* an array has been compared with the array of its elements reordered
\* within: an object below the documents has its keys in another order
KeyOrderWitness ==
    /\ pc = "done"
    /\ left # right
    /\ BothArrays(left, right)
    /\ Len(diffResult) >= 2

----------------------------------------------------------------------------
(* Vocabulary of the properties of the formatter *)

\* the text of the formatter holds a document
HoldsDocument == ~IsBlank(jsonInput) /\ JSONParse(jsonInput).ok

\* the value a text denotes, the properties of each of its objects in the
\* order of the text
ReadText(text) == ParseText(text, FALSE).value

\* are the names of every object of v, at any level, in ascending order
RECURSIVE KeysAscending(_)
KeysAscending(v) ==
    /\ v.t = "object" =>
          \A i \in 1..(Len(v.keys) - 1) : StringLess(v.keys[i], v.keys[i + 1])
    /\ \A i \in 1..Len(v.items) : KeysAscending(v.items[i])

\* does every array of a, at any level, have in b its elements at their
\* places
RECURSIVE ArrayOrderKept(_, _)
ArrayOrderKept(a, b) ==
    IF a.t # b.t THEN FALSE
    ELSE IF a.t = "array"
         THEN /\ Len(a.items) = Len(b.items)
              /\ \A i \in 1..Len(a.items) : ArrayOrderKept(a.items[i], b.items[i])
    ELSE IF a.t = "object"
         THEN \A k \in Range(a.keys) \cap Range(b.keys) : ArrayOrderKept(Get(a, k), Get(b, k))
    ELSE a = b

\* C11: with the sorting of keys on, whatever the indent width and the
\* compact setting, the formatted text lists the keys of every object, at
\* every level and inside arrays, in ascending lexicographic order, and
\* leaves the elements of arrays in their order; {"b":1,"a":2} formatted
\* with sorting, indent 2 and compact off is the text of the example.
SortKeysSortsEveryObject ==
    (sortKeys /\ HoldsDocument) =>
       /\ KeysAscending(ReadText(formattedJson))
       /\ ArrayOrderKept(ReadText(jsonInput), ReadText(formattedJson))
       /\ (jsonInput = "{\"b\":1,\"a\":2}" /\ indentSize = 2 /\ ~compactMode)
             => formattedJson = "{\n  \"a\": 2,\n  \"b\": 1\n}"

\* C12: for every document and every combination of the options (indent
\* 2, 4 or 8, sorting of keys, compact), parsing the formatted text yields
\* a value deeply equal to the document: the same keys with the same
\* values at every level, the same array elements in the same order.
FormatParseRoundTrip ==
    HoldsDocument =>
       LET back == JSONParse(formattedJson)
       IN  /\ back.ok
           /\ isEqual(back.value, JSONParse(jsonInput).value)
           /\ isEqual(JSONParse(jsonInput).value, back.value)

\* C13: formatting with the sorting of keys is idempotent: the formatted
\* text, parsed and formatted again under the same options, is the same
\* text, and sortObjectKeys applied to its own result returns it, the
\* order of the keys included.
SortKeysIdempotent ==
    (sortKeys /\ HoldsDocument) =>
       LET v == JSONParse(jsonInput).value
       IN  /\ FormatJson(formattedJson, indentSize, sortKeys, compactMode) = formattedJson
           /\ sortObjectKeys(sortObjectKeys(v)) = sortObjectKeys(v)

\* a document has been formatted with the sorting on, which moved a key
SortKeysWitness ==
    /\ sortKeys /\ ~compactMode /\ HoldsDocument
    /\ formattedJson # FormatJson(jsonInput, indentSize, FALSE, compactMode)

----------------------------------------------------------------------------
(* Vocabulary of the properties of the viewer *)

\* the text of the viewer holds a document
ViewerHoldsDocument == ~IsBlank(viewerInput) /\ JSONParse(viewerInput).ok

\* the document of the viewer's text
Document == JSONParse(viewerInput).value

\* the nodes of v, containers and leaves, each before its children
RECURSIVE AllNodes(_)
AllNodes(v) == <<v>> \o Concat([i \in 1..Len(v.items) |-> AllNodes(v.items[i])])

\* the paths of the containers of v, v being at path
RECURSIVE ContainerPaths(_, _)
ContainerPaths(v, path) ==
    IF ~IsContainer(v) THEN {}
    ELSE {path} \cup UNION {ContainerPaths(v.items[i], PathOfChild(v, path, i)) :
                               i \in 1..Len(v.items)}

\* the last row of the rows below row i: those that follow it at a
\* greater depth
BlockEnd(rows, i) ==
    CHOOSE e \in i..Len(rows) :
       /\ \A k \in (i + 1)..e : rows[k].level > rows[i].level
       /\ e = Len(rows) \/ rows[e + 1].level <= rows[i].level

\* the rows below row i that are one level deeper
ChildRows(rows, i) ==
    SelectSeq(SubSeq(rows, i + 1, BlockEnd(rows, i)),
              LAMBDA row : row.level = rows[i].level + 1)

\* is a the sequence b with some elements left out
RECURSIVE IsSubsequence(_, _)
IsSubsequence(a, b) ==
    IF a = <<>> THEN TRUE
    ELSE IF b = <<>> THEN FALSE
    ELSE IF Head(a) = Head(b) THEN IsSubsequence(Tail(a), Tail(b))
    ELSE IsSubsequence(a, Tail(b))

\* C14: for every text that parses, whatever the root of its document
\* (the documents null, 0, false and "" included) and whatever the
\* expanded paths, the rows hold exactly one row of the root: at depth 0,
\* with the root path.
OneRootRow ==
    ViewerHoldsDocument =>
       /\ nodes # <<>>
       /\ nodes[1].level = 0 /\ nodes[1].path = "" /\ nodes[1].value = Document
       /\ \A i \in 2..Len(nodes) : nodes[i].level > 0

\* C15: in every row list, a container whose path is in expandedPaths is
\* expanded and immediately followed by the rows of all its children; a
\* container whose path is not in the set is not expanded, has children
\* iff it is not empty, and no descendant of it is in the list.
ExpansionFollowsPaths ==
    \A i \in 1..Len(nodes) :
       IsContainer(nodes[i].value) =>
          LET row == nodes[i]
              n == Len(row.value.items)
              kids == ChildRows(nodes, i)
          IN  IF row.path \in expandedPaths
              THEN /\ row.isExpanded
                   /\ Len(kids) = n
                   /\ n > 0 => nodes[i + 1] = kids[1]
                   /\ \A k \in 1..n :
                         /\ kids[k].value = row.value.items[k]
                         /\ kids[k].path = PathOfChild(row.value, row.path, k)
              ELSE /\ ~row.isExpanded
                   /\ row.hasChildren <=> n > 0
                   /\ BlockEnd(nodes, i) = i

\* an expanded container is followed by its children, one of them a
\* collapsed container that is not empty
ExpansionWitness ==
    \E i \in 1..Len(nodes) :
       /\ nodes[i].isExpanded
       /\ \E k \in 1..Len(ChildRows(nodes, i)) :
             LET kid == ChildRows(nodes, i)[k]
             IN  kid.hasChildren /\ ~kid.isExpanded /\ kid.path \notin expandedPaths

\* C16: after "expand all" on a document, expandedPaths holds the path of
\* every container of the document, and the rows are one row per node of
\* the document, containers and leaves: as many rows as nodes.
ExpandAllShowsEveryNode ==
    [][ExpandAll =>
          /\ ContainerPaths(parsedJson', "") \subseteq expandedPaths'
          /\ Len(nodes') = Len(AllNodes(parsedJson'))
          /\ SameBag([i \in 1..Len(nodes') |-> nodes'[i].value], AllNodes(parsedJson'))]_vars

\* every node of a document of depth 2 at least has its row, the path of
\* a leaf below the root being among the expanded paths, where only
\* "expand all" puts it
ExpandAllWitness ==
    /\ Len(nodes) = Len(AllNodes(parsedJson))
    /\ \E i \in 1..Len(nodes) : nodes[i].level >= 2
    /\ \E i \in 1..Len(nodes) :
          ~IsContainer(nodes[i].value) /\ nodes[i].path # "" /\ nodes[i].path \in expandedPaths

\* C17: after "collapse all", from any expansion state, expandedPaths
\* holds the root path only, and the rows are the root row (expanded, if
\* a container) followed by one collapsed row per direct child of the
\* root: no node at depth 2 or deeper is visible.
CollapseAllShowsTopLevel ==
    [][CollapseAll =>
          LET root == parsedJson'
              n == Len(root.items)
          IN  /\ expandedPaths' = {""}
              /\ Len(nodes') = 1 + n
              /\ nodes'[1].level = 0 /\ nodes'[1].value = root
              /\ IsContainer(root) => nodes'[1].isExpanded
              /\ \A k \in 1..n :
                    /\ nodes'[1 + k].level = 1
                    /\ nodes'[1 + k].value = root.items[k]
                    /\ ~nodes'[1 + k].isExpanded]_vars

\* does a row match a term by its path or by its rendered value, the
\* rendered value of a container being its displayed summary
MatchesRendered(row, term) ==
    \/ includes(toLowerCase(row.path), toLowerCase(term))
    \/ includes(toLowerCase(getValueDisplay(row)), toLowerCase(term))

\* C18: a row passes the search filter iff the term is a case-insensitive
\* substring of its path or of its rendered value, the rendered value of a
\* container being its displayed summary; the rows that pass keep their
\* order, and the empty term leaves the list as it is.
FilterMatchesPathOrRendered ==
    /\ filteredNodes = SelectSeq(nodes, LAMBDA row : MatchesRendered(row, searchTerm))
    /\ searchTerm = "" => filteredNodes = nodes

\* C19: a change of the search term changes neither expandedPaths nor the
\* parsed value nor the unfiltered rows, and the filtered rows are always
\* rows of the unfiltered list, in its order.
SearchLeavesExpansion ==
    /\ IsSubsequence(filteredNodes, nodes)
    /\ [][/\ searchTerm' # searchTerm =>
                /\ expandedPaths' = expandedPaths
                /\ parsedJson' = parsedJson
                /\ nodes' = nodes
          /\ IsSubsequence(filteredNodes', nodes')]_vars

\* a search term holds back some rows of a document with several expanded
\* containers, and lets others pass
SearchWitness ==
    /\ searchTerm # ""
    /\ filteredNodes # <<>>
    /\ Len(filteredNodes) < Len(nodes)
    /\ Cardinality(expandedPaths) >= 2

\* is a text empty or white space only
WhiteSpaceOnly(text) == \A i \in 1..Len(text) : charAt(text, i) \in WhiteSpace

\* C20: an empty or white-space-only text is no document, not an error:
\* the validity indicator stays valid, the formatted output is empty, the
\* diff with any other text is empty and the viewer shows no row for it;
\* a malformed text, by contrast, makes the validity indicator invalid.
BlankInputIsNoDocument ==
    /\ WhiteSpaceOnly(jsonInput) =>
          /\ isValidJson
          /\ formattedJson = ""
          /\ \A other \in FormatEdits \cup {jsonInput} :
                DiffOfTexts(jsonInput, other) = <<>> /\ DiffOfTexts(other, jsonInput) = <<>>
          /\ \A expanded \in SUBSET {"", "a"} :
                FilterNodes(NodesOf(ParsedOf(jsonInput), expanded), "") = <<>>
    /\ (~WhiteSpaceOnly(jsonInput) /\ ~JSONParse(jsonInput).ok) => ~isValidJson

\* a text of white space only is in the formatter, the options changed
BlankInputWitness ==
    /\ WhiteSpaceOnly(jsonInput) /\ jsonInput # ""
    /\ sortKeys /\ compactMode

----------------------------------------------------------------------------
(* Properties of the failure cases *)

\* is a text neither blank nor the text of a document
Malformed(text) == ~WhiteSpaceOnly(text) /\ ~JSONParse(text).ok

\* C21: a malformed text, such as {a:1}, is reported as a parse error and
\* gives no output: the validity indicator is false, the formatted output
\* is empty under every option, the diff with any other text has no
\* record, and the viewer shows no row for it.
MalformedInputGivesNothing ==
    Malformed(jsonInput) =>
       /\ ~isValidJson
       /\ formattedJson = ""
       /\ \A other \in DiffTexts :
             DiffOfTexts(jsonInput, other) = <<>> /\ DiffOfTexts(other, jsonInput) = <<>>
       /\ \A expanded \in SUBSET {"", "a"} :
             FilterNodes(NodesOf(ParsedOf(jsonInput), expanded), "") = <<>>

\* the text {a:1} is in the formatter, the options changed
MalformedInputWitness ==
    /\ jsonInput = "{a:1}"
    /\ sortKeys /\ indentSize = 4

\* C22: the diff engine runs only when both texts parse; when both texts
\* are not empty and one of them at least does not parse, the tab does
\* not say that the two documents are identical.
DiffOnlyOfTwoDocuments ==
    /\ (left # Undefined \/ right # Undefined \/ diffResult # <<>>) =>
          JSONParse(leftJson).ok /\ JSONParse(rightJson).ok
    /\ (~WhiteSpaceOnly(leftJson) /\ ~WhiteSpaceOnly(rightJson)
          /\ (Malformed(leftJson) \/ Malformed(rightJson))) =>
             ~ShowsIdentical(diffResult, leftJson, rightJson)

----------------------------------------------------------------------------
(* Properties of the diff as a whole *)

\* the sub-values of v below v itself
ProperNodes(v) == Tail(AllNodes(v))

\* the step at the root descends into the two documents
RootDescends == BothArrays(left, right) \/ BothObjects(left, right)

\* the values on one side of the records, Undefined left out
SideValues(side) ==
    SelectSeq([i \in 1..Len(diffResult) |-> diffResult[i][side]],
              LAMBDA v : v # Undefined)

\* every value of visited is one of the values of nodes, each node of
\* nodes taken once at most
EachNodeOnce(visited, among) ==
    \A v \in Range(visited) : Count(v, visited) <= Count(v, among)

\* C23: the diff of two documents terminates with a list of records and
\* raises no error; it descends only into strictly smaller sub-values, so
\* the records of each side are sub-values of that side's document, a
\* node of the document in one record at most, and, once the root step
\* has descended, proper sub-values only.
DiffTerminatesWithRecords ==
    /\ pc = "input" =>
          Len(generateSmartJsonDiff(left, right, "")) <= Len(AllNodes(left)) + Len(AllNodes(right))
    /\ pc = "done" =>
          /\ \A i \in 1..Len(diffResult) :
                /\ diffResult[i].type \in {"added", "removed", "changed", "unchanged"}
                /\ diffResult[i].leftValue # Undefined \/ diffResult[i].rightValue # Undefined
          /\ EachNodeOnce(SideValues("leftValue"),
                          IF RootDescends THEN ProperNodes(left) ELSE <<left>>)
          /\ EachNodeOnce(SideValues("rightValue"),
                          IF RootDescends THEN ProperNodes(right) ELSE <<right>>)

\* a diff that has descended twice: a record of a node two levels below
\* the root
DiffTerminatesWitness ==
    /\ pc = "done"
    /\ RootDescends
    /\ \E i \in 1..Len(left.items) : \E j \in 1..Len(right.items) :
          /\ BothArrays(left.items[i], right.items[j]) \/ BothObjects(left.items[i], right.items[j])
          /\ \E k \in 1..Len(diffResult) :
                /\ diffResult[k].type \in {"changed", "unchanged"}
                /\ diffResult[k].leftValue \in Range(ProperNodes(left.items[i]))
                /\ diffResult[k].rightValue \in Range(ProperNodes(right.items[j]))

\* two values are the same JSON value: the same kind, the same number,
\* string or boolean, the same elements in the same order, the same set of
\* keys with the same value under each key
RECURSIVE DeepEqual(_, _)
DeepEqual(a, b) ==
    /\ a.t = b.t
    /\ a.t \notin {"array", "object"} => a.n = b.n /\ a.s = b.s
    /\ a.t = "array" =>
          /\ Len(a.items) = Len(b.items)
          /\ \A i \in 1..Len(a.items) : DeepEqual(a.items[i], b.items[i])
    /\ a.t = "object" =>
          /\ KeySet(a) = KeySet(b)
          /\ \A k \in KeySet(a) : DeepEqual(Prop(a, k), Prop(b, k))

\* a record carries the values its kind calls for
WellFormed(rec) ==
    /\ rec.type = "added" => rec.leftValue = Undefined /\ rec.rightValue # Undefined
    /\ rec.type = "removed" => rec.leftValue # Undefined /\ rec.rightValue = Undefined
    /\ rec.type = "changed" =>
          /\ rec.leftValue # Undefined /\ rec.rightValue # Undefined
          /\ ~DeepEqual(rec.leftValue, rec.rightValue)
    /\ rec.type = "unchanged" =>
          /\ rec.leftValue # Undefined /\ rec.rightValue # Undefined
          /\ DeepEqual(rec.leftValue, rec.rightValue)

\* the value a record of kind type carries on one side is found in the
\* document of that side
CarriesValueOf(rec, side, doc) ==
    rec[side] # Undefined => rec[side] \in Range(AllNodes(doc))

\* C24: every record is well-formed: an added record carries only the
\* value of the right document, a removed record only the value of the
\* left one, a changed or an unchanged record both; the two values of an
\* unchanged record are deeply equal, those of a changed record are not.
RecordsWellFormed ==
    pc = "done" =>
       \A i \in 1..Len(diffResult) :
          /\ WellFormed(diffResult[i])
          /\ CarriesValueOf(diffResult[i], "leftValue", left)
          /\ CarriesValueOf(diffResult[i], "rightValue", right)

\* a diff with a record of each of three kinds at least, an added or a
\* removed one among them, whose two documents differ
RecordsWellFormedWitness ==
    /\ pc = "done"
    /\ \E i, j, k \in 1..Len(diffResult) :
          /\ diffResult[i].type \in {"added", "removed"}
          /\ diffResult[j].type = "changed"
          /\ diffResult[k].type = "unchanged"
    /\ ~DeepEqual(left, right)

\* the diff has no added, removed or changed record
NoDifference(diffs) == \A i \in 1..Len(diffs) : diffs[i].type = "unchanged"

\* C26: the diff of two documents has no added, removed or changed record
\* exactly when the two documents are deeply equal, the order of keys
\* ignored; the count of the tab's badge is zero exactly then.
NoDifferenceIffEqual ==
    pc = "done" =>
       /\ NoDifference(diffResult) <=> DeepEqual(left, right)
       /\ TabBadgeCount(diffResult) = 0 <=> DeepEqual(left, right)

\* two objects that are equal with their keys in different orders, and
\* the diff of them
NoDifferenceWitness ==
    /\ pc = "done"
    /\ BothObjects(left, right)
    /\ left # right /\ DeepEqual(left, right)
    /\ Len(diffResult) >= 2
    /\ TabBadgeCount(diffResult) = 0

----------------------------------------------------------------------------
(* Properties of the list of differences *)

\* the records of diffs that are not unchanged, in the order of diffs
RECURSIVE Differences(_)
Differences(diffs) ==
    IF diffs = <<>> THEN <<>>
    ELSE IF Head(diffs).type = "unchanged" THEN Differences(Tail(diffs))
    ELSE <<Head(diffs)>> \o Differences(Tail(diffs))

\* C30: with "show only differences" on, the displayed list is the
\* subsequence of the records that are not unchanged, in their order, and
\* its length is the sum of the added, removed and changed badges; with
\* it off, the displayed list is the full list.
ShowOnlyDiffsFilters ==
    /\ showOnlyDiffs =>
          /\ filteredDiffResult = Differences(diffResult)
          /\ Len(filteredDiffResult) = BadgeCount(diffResult, "added")
                                       + BadgeCount(diffResult, "removed")
                                       + BadgeCount(diffResult, "changed")
    /\ ~showOnlyDiffs => filteredDiffResult = diffResult

\* "show only differences" is on over a diff with unchanged records and
\* two differences at least
ShowOnlyDiffsWitness ==
    /\ showOnlyDiffs
    /\ Len(filteredDiffResult) >= 2
    /\ Len(filteredDiffResult) < Len(diffResult)

----------------------------------------------------------------------------
(* Properties of the viewer's rows over its operations *)

\* C25: after any sequence of edits, toggles, expand all and collapse all,
\* the row list is the one materialized from scratch from the current
\* parsed value and the current expandedPaths, and with no search term it
\* is the displayed list; no row of an earlier value or of an earlier
\* expansion survives.
RowsMaterializedFromScratch ==
    /\ parsedJson = ParsedOf(viewerInput)
    /\ nodes = NodesOf(parsedJson, expandedPaths)
    /\ searchTerm = "" => filteredNodes = nodes

\* the root has been collapsed after a container below it was expanded:
\* the one row left is the root's
RowsFromScratchWitness ==
    /\ IsObjectType(parsedJson)
    /\ "" \notin expandedPaths /\ expandedPaths # {}
    /\ Len(nodes) = 1
    /\ searchTerm = ""

\* the paths with path toggled: taken out when in, put in when out
Toggled(paths, path) ==
    IF path \in paths THEN paths \ {path} ELSE paths \cup {path}

\* the paths of the rows shown
PathsShown == {filteredNodes[i].path : i \in 1..Len(filteredNodes)}

\* C27: a toggle changes expandedPaths by the one path toggled, the paths
\* of the descendants staying in the set; the same toggle once more gives
\* back the expandedPaths and the row lists there were before the first.
ToggleChangesOnePath ==
    [][\A path \in PathsShown :
          ToggleExpanded(path) =>
             /\ expandedPaths' = Toggled(expandedPaths, path)
             /\ \A other \in expandedPaths \ {path} : other \in expandedPaths'
             /\ Toggled(expandedPaths', path) = expandedPaths
             /\ NodesOf(parsedJson', Toggled(expandedPaths', path)) = nodes
             /\ FilterNodes(NodesOf(parsedJson', Toggled(expandedPaths', path)),
                            searchTerm') = filteredNodes]_vars

\* a container is collapsed while the path of one of its descendants, a
\* container too, is still expanded
ToggleWitness ==
    /\ IsObjectType(parsedJson)
    /\ "" \in expandedPaths
    /\ \E i \in 1..Len(nodes) :
          /\ nodes[i].level = 1 /\ nodes[i].hasChildren /\ ~nodes[i].isExpanded
          /\ \E path \in expandedPaths :
                /\ path \notin {"", nodes[i].path}
                /\ path \in Range(getAllPaths(nodes[i].value, nodes[i].path))

\* C28: an edit that gives a new parsed array or object resets
\* expandedPaths to the root path alone; an edit that does not parse or is
\* empty leaves expandedPaths as it was and shows no row.
EditResetsExpansion ==
    [][\A value \in ViewerEdits :
          HandleJsonInput(value) =>
             /\ (~WhiteSpaceOnly(value) /\ JSONParse(value).ok
                   /\ IsContainer(JSONParse(value).value)) =>
                      expandedPaths' = {""}
             /\ (WhiteSpaceOnly(value) \/ Malformed(value)) =>
                   /\ expandedPaths' = expandedPaths
                   /\ nodes' = <<>> /\ filteredNodes' = <<>>]_vars

\* a text that does not parse has been typed over a document with
\* expanded paths below the root
EditWitness ==
    /\ Malformed(viewerInput)
    /\ expandedPaths \notin {{}, {""}}
    /\ nodes = <<>>

\* the rows parseJsonToNodes gives for the document of the viewer's text
\* under the current expandedPaths
MaterializedRows == parseJsonToNodes(Document, "", 0, expandedPaths)

\* the nodes of v, each before its children, with its path, its depth and
\* the paths of its proper ancestors
RECURSIVE NodesWithAncestors(_, _, _, _)
NodesWithAncestors(v, path, depth, above) ==
    <<[value |-> v, path |-> path, level |-> depth, above |-> above]>>
    \o Concat([i \in 1..Len(v.items) |->
                  NodesWithAncestors(v.items[i], PathOfChild(v, path, i), depth + 1,
                                     above \cup {path})])

\* the nodes of v whose proper ancestors all have their paths in paths
VisibleNodes(v, paths) ==
    SelectSeq(NodesWithAncestors(v, "", 0, {}), LAMBDA node : node.above \subseteq paths)

\* the row of the parent of row i: the last row before it that is less deep
HasParentRow(rows, i) == \E k \in 1..(i - 1) : rows[k].level < rows[i].level

\* the index of that row
ParentRow(rows, i) ==
    CHOOSE k \in 1..(i - 1) :
       /\ rows[k].level < rows[i].level
       /\ \A m \in (k + 1)..(i - 1) : rows[m].level >= rows[i].level

\* C29: every materialized row list is a pre-order traversal: the root
\* row is first, at depth 0; every other row is one level deeper than the
\* row of its parent, which precedes it and is an expanded container; and
\* the rows are those of the nodes whose proper ancestors all have their
\* paths in expandedPaths, in document order.
RowsArePreOrder ==
    ViewerHoldsDocument =>
       LET rows == MaterializedRows
           visible == VisibleNodes(Document, expandedPaths)
       IN  /\ nodes # <<>> => nodes = rows
           /\ rows # <<>>
           /\ rows[1].level = 0 /\ rows[1].value = Document
           /\ \A i \in 2..Len(rows) :
                 /\ HasParentRow(rows, i)
                 /\ LET parent == rows[ParentRow(rows, i)]
                    IN  /\ rows[i].level = parent.level + 1
                        /\ IsContainer(parent.value)
                        /\ parent.isExpanded /\ parent.path \in expandedPaths
                        /\ rows[i].value \in Range(parent.value.items)
           /\ Len(rows) = Len(visible)
           /\ \A i \in 1..Len(rows) :
                 /\ rows[i].value = visible[i].value
                 /\ rows[i].path = visible[i].path
                 /\ rows[i].level = visible[i].level

\* rows down to depth 2 are shown beside a container that is not
\* expanded, so that some node of the document has no row
PreOrderWitness ==
    /\ ViewerHoldsDocument
    /\ nodes = MaterializedRows
    /\ \E i \in 1..Len(nodes) : nodes[i].level >= 2
    /\ \E i \in 1..Len(nodes) : nodes[i].hasChildren /\ ~nodes[i].isExpanded
    /\ Len(nodes) < Len(AllNodes(Document))

====
